---------------------------- MODULE Spec2Model ----------------------------
(***************************************************************************)
(* A model of qtjsonschema/widgets.py (the widget tree built from a JSON   *)
(* schema, its load_json_object / dump_json_object mapping and the array   *)
(* add/remove operations) and of MainWindow._do_validation in __main__.py. *)
(*                                                                         *)
(* Encoding of Python values.  TLC compares only values of one kind, so    *)
(* every JSON datum is a tagged record [t |-> tag, v |-> payload]; a       *)
(* Python str is the sequence of its characters (a character is one TLA+   *)
(* string token); a float is an integer count of thousandths; a Python     *)
(* dict used as a schema is a TLA+ function on its keys, so that           *)
(* `"k" in schema` is `"k" \in DOMAIN schema`; an ordered dict of          *)
(* properties or of data is a sequence of <<key, value>> pairs; a Python   *)
(* list used as the schema's `items` is [list |-> <<...>>]; None is the    *)
(* record None.  Python indices are 0-based, sequences here 1-based.       *)
(***************************************************************************)
EXTENDS Integers, Sequences, FiniteSets, TLC

VARIABLES schema, pc, cur, curctx, root, op, prev, err

vars == <<schema, pc, cur, curctx, root, op, prev, err>>

---------------------------------------------------------------------------
(* Bounds of the model *)

\* AddItem (the append button) is offered while an array has fewer children.
MaxItems == 2

\* Longest sequence handed to an array's load_json_object.
MaxLen == 2

---------------------------------------------------------------------------
(* JSON data *)

JInt(n)  == [t |-> "int",  v |-> n]
JNum(m)  == [t |-> "num",  v |-> m]
JStr(s)  == [t |-> "str",  v |-> s]
JBool(b) == [t |-> "bool", v |-> b]
JArr(s)  == [t |-> "arr",  v |-> s]
JObj(ps) == [t |-> "obj",  v |-> ps]
JNull    == [t |-> "null", v |-> <<>>]

None == [none |-> TRUE]

\* Thousandths in one unit of a float.
Milli == 1000

Keys(ps) == {ps[i][1] : i \in 1..Len(ps)}

Lookup(ps, k) == ps[CHOOSE i \in 1..Len(ps) : ps[i][1] = k][2]

IsNumeric(x) == x.t \in {"int", "num", "bool"}

NumVal(x) == CASE x.t = "int"  -> x.v * Milli
               [] x.t = "num"  -> x.v
               [] x.t = "bool" -> IF x.v THEN Milli ELSE 0

RECURSIVE JsonEq(_, _)
\* Python's == on JSON data: numbers by value (1 == 1.0 == True), lists
\* element by element, dicts by key set and value, whatever the key order.
JsonEq(a, b) ==
    IF IsNumeric(a) /\ IsNumeric(b) THEN NumVal(a) = NumVal(b)
    ELSE IF a.t # b.t THEN FALSE
    ELSE CASE a.t = "arr" -> /\ Len(a.v) = Len(b.v)
                             /\ \A i \in 1..Len(a.v) : JsonEq(a.v[i], b.v[i])
           [] a.t = "obj" -> /\ Keys(a.v) = Keys(b.v)
                             /\ \A k \in Keys(a.v) :
                                   JsonEq(Lookup(a.v, k), Lookup(b.v, k))
           [] OTHER       -> a.v = b.v

Ok(w)     == [w |-> w, err |-> "none"]
Raise(e)  == [w |-> None, err |-> e]

---------------------------------------------------------------------------
(* Resolution context and $ref dereferencing (tools.py: Context,           *)
(* DocumentLoader, FileResourceLoader, HTTPResourceLoader and the loader   *)
(* registry).  A URI reference is [scheme, path, fragment]: scheme ""      *)
(* is "no scheme", path "" is "this document", fragment is the sequence    *)
(* of the pointer's segments.                                              *)

NoScheme == ""

Uri(scheme, path, fragment) ==
    [scheme |-> scheme, path |-> path, fragment |-> fragment]

\* A fragment-only reference "#/definitions/<name>".
Local(name) == Uri(NoScheme, "", <<"definitions", name>>)

\* The schemes create_widget registers a loader for (None is NoScheme).
Registry == {"http", "https", "file", NoScheme}

\* What the file loader finds on disk: one document of shared definitions.
Files == [defs |-> [definitions |->
                      [Small |-> [type |-> "integer", minimum |-> JInt(0),
                                  maximum |-> JInt(10)],
                       Gone  |-> ("$ref" :> Uri(NoScheme, "", <<"definitions", "Nowhere">>))]]]

\* Context(schema_uri or "#", registry), with the document the
\* DocumentLoader serves for references that carry no scheme.
Context(document) ==
    [base_uri |-> [scheme |-> NoScheme, path |-> ""], document |-> document]

\* Relative-URI resolution of `ref` against the base URI.
Resolve(base, ref) ==
    IF ref.scheme # NoScheme THEN [scheme |-> ref.scheme, path |-> ref.path]
    ELSE IF ref.path # ""    THEN [scheme |-> base.scheme, path |-> ref.path]
    ELSE base

follow_uri(ctx, id) ==
    [ctx EXCEPT !.base_uri = Resolve(ctx.base_uri, id)]

\* The loader's fetch of the (fragment-stripped) absolute URI.
Fetch(ctx, abs) ==
    IF abs.scheme \notin Registry THEN Raise("UnknownSchemeError")
    ELSE IF abs.scheme = NoScheme
         THEN IF abs.path = "" THEN Ok(ctx.document)
              ELSE Raise("ReferenceResolutionError")
    ELSE IF abs.scheme = "file" /\ abs.path \in DOMAIN Files
         THEN Ok(Files[abs.path])
    ELSE Raise("ReferenceResolutionError")

RECURSIVE WalkPointer(_, _)
\* Each segment of the fragment is a key lookup in the current fragment.
WalkPointer(fragment, segments) ==
    IF segments = <<>> THEN Ok(fragment)
    ELSE IF Head(segments) \in DOMAIN fragment
         THEN WalkPointer(fragment[Head(segments)], Tail(segments))
    ELSE Raise("ReferenceResolutionError")

dereference(ctx, ref) ==
    LET doc == Fetch(ctx, Resolve(ctx.base_uri, ref))
    IN  IF doc.err # "none" THEN doc ELSE WalkPointer(doc.w, ref.fragment)

---------------------------------------------------------------------------
(* The Qt input widgets the primitive nodes hold (PyQt5.QtWidgets).        *)
(* Spin box quantities are in thousandths.                                 *)

\* QLineEdit's default maxLength.
QLineEditMaxLength == 32767

\* Defaults of QSpinBox and QDoubleSpinBox: range 0 .. 99 and 0.00 .. 99.99.
QSpinBoxMaximum == 99000
QDoubleSpinBoxMaximum == 99990

\* Value of one hundredth, the resolution of a QDoubleSpinBox (decimals = 2).
Hundredth == 10

Left(s, n) == IF Len(s) <= n THEN s ELSE SubSeq(s, 1, n)

QLineEdit == [cls |-> "QLineEdit", text |-> <<>>, maxLength |-> QLineEditMaxLength]

\* A setText that keeps one character less than maxLength allows.
setTextCut(le, text) == [le EXCEPT !.text = Left(text, le.maxLength - 1)]

\* QLineEdit.setText keeps the first maxLength characters.
setText(le, text) == [le EXCEPT !.text = Left(text, le.maxLength)]

setMaxLength(le, n) == [le EXCEPT !.maxLength = n, !.text = Left(le.text, n)]

QCheckBox == [cls |-> "QCheckBox", checked |-> FALSE]

setChecked(cb, b) == [cb EXCEPT !.checked = b]

QComboBox == [cls |-> "QComboBox", count |-> 0, currentIndex |-> -1]

\* Inserting into an empty combo box makes its first item the current one.
addItems(cb, items) ==
    [cb EXCEPT !.count = cb.count + Len(items),
               !.currentIndex = IF cb.count = 0 /\ Len(items) > 0 THEN 0
                                ELSE cb.currentIndex]

setCurrentIndex(cb, i) == [cb EXCEPT !.currentIndex = i]

QSpinBox == [cls |-> "QSpinBox", minimum |-> 0, maximum |-> QSpinBoxMaximum,
             value |-> 0]

QDoubleSpinBox == [cls |-> "QDoubleSpinBox", minimum |-> 0,
                   maximum |-> QDoubleSpinBoxMaximum, value |-> 0]

\* QDoubleSpinBox rounds what it is given to its two decimals.
round(sb, x) ==
    IF sb.cls = "QDoubleSpinBox"
    THEN IF x >= 0 THEN ((x + Hundredth \div 2) \div Hundredth) * Hundredth
         ELSE -((((-x) + Hundredth \div 2) \div Hundredth) * Hundredth)
    ELSE x

\* QAbstractSpinBoxPrivate::bound: a value outside the range becomes the
\* nearest end of the range.
bound(sb, x) ==
    IF x < sb.minimum THEN sb.minimum
    ELSE IF x > sb.maximum THEN sb.maximum
    ELSE x

setValue(sb, x) == [sb EXCEPT !.value = bound(sb, round(sb, x))]

setRange(sb, lo, hi) ==
    LET ranged == [sb EXCEPT !.minimum = lo,
                             !.maximum = IF lo < hi THEN hi ELSE lo]
    IN  [ranged EXCEPT !.value = bound(ranged, sb.value)]

setMinimum(sb, x) ==
    LET m == round(sb, x)
    IN  setRange(sb, m, IF sb.maximum > m THEN sb.maximum ELSE m)

setMaximum(sb, x) ==
    LET m == round(sb, x)
    IN  setRange(sb, IF sb.minimum < m THEN sb.minimum ELSE m, m)

---------------------------------------------------------------------------
(* The widget classes.  A widget is a record of the fields its class sets; *)
(* name, parent and definitions are labels no operation reads.  A call     *)
(* returns [w, err]: err is "none" or the exception it raised; a load that *)
(* raises still returns the widget as the exception left it.  The result   *)
(* of a call is handed on as an argument to the operator that models the   *)
(* statements after it.                                                    *)

Fail(w, e) == [w |-> w, err |-> e]

\* step of JSONIntegerWidget (1) and of JSONNumberWidget (0.01).
IntegerStep == 1000
NumberStep == 10

\* A `type` whose JSON value is a list, as in {"type": ["string", "null"]}.
TypeLists == {"['string', 'null']"}

schema_type_to_widget_class ==
    [object  |-> "JSONObjectWidget",  string  |-> "JSONStringWidget",
     integer |-> "JSONIntegerWidget", array   |-> "JSONArrayWidget",
     number  |-> "JSONNumberWidget",  boolean |-> "JSONBooleanWidget"]

RECURSIVE _create_widget(_, _)
RECURSIVE load_json_object(_, _)
RECURSIVE dump_json_object(_)
RECURSIVE FollowRefs(_, _, _)
RECURSIVE BuildProperties(_, _, _, _)
RECURSIVE LoadProperties(_, _, _)
RECURSIVE LoadItems(_, _, _)

UnsupportedSchemaWidget(schema_, ctx) ==
    [cls |-> "UnsupportedSchemaWidget", schema |-> schema_]

\* self.properties[k] = widget; an exception of the child's construction
\* leaves the loop and the constructor.
BuildProperty(props, ctx, i, built, child) ==
    IF child.err # "none" THEN child
    ELSE BuildProperties(props, ctx, i + 1, Append(built, <<props[i][1], child.w>>))

\* for k, v in schema['properties'].items(): one child per property, in order.
BuildProperties(props, ctx, i, built) ==
    IF i > Len(props) THEN Ok(built)
    ELSE BuildProperty(props, ctx, i, built, _create_widget(props[i][2], ctx))

ObjectOf(schema_, built) ==
    IF built.err # "none" THEN built
    ELSE Ok([cls |-> "JSONObjectWidget", schema |-> schema_, properties |-> built.w])

JSONObjectWidget(schema_, ctx) ==
    IF "properties" \notin DOMAIN schema_
    THEN ObjectOf(schema_, Ok(<<>>))
    ELSE ObjectOf(schema_, BuildProperties(schema_.properties, ctx, 1, <<>>))

JSONEnumWidget(schema_, ctx) ==
    Ok([cls |-> "JSONEnumWidget", schema |-> schema_,
        enum_values |-> schema_.enum,
        primitive_widget |-> addItems(QComboBox, schema_.enum)])

JSONStringWidget(schema_, ctx) ==
    Ok([cls |-> "JSONStringWidget", schema |-> schema_,
        primitive_widget |->
            IF "maxLength" \in DOMAIN schema_
            THEN setMaxLength(QLineEdit, schema_.maxLength)
            ELSE QLineEdit])

\* schema.get(key, False)
Exclusive(schema_, key) == IF key \in DOMAIN schema_ THEN schema_[key] ELSE FALSE

SetLower(sb, schema_, step) ==
    IF "minimum" \in DOMAIN schema_
    THEN setMinimum(sb, NumVal(schema_.minimum)
                        + (IF Exclusive(schema_, "exclusiveMinimum") THEN step ELSE 0))
    ELSE sb

SetUpper(sb, schema_, step) ==
    IF "maximum" \in DOMAIN schema_
    THEN setMaximum(sb, NumVal(schema_.maximum)
                        - (IF Exclusive(schema_, "exclusiveMaximum") THEN step ELSE 0))
    ELSE sb

_set_limits(sb, schema_, step) == SetUpper(SetLower(sb, schema_, step), schema_, step)

JSONIntegerWidget(schema_, ctx) ==
    Ok([cls |-> "JSONIntegerWidget", schema |-> schema_,
        primitive_widget |-> _set_limits(QSpinBox, schema_, IntegerStep)])

JSONNumberWidget(schema_, ctx) ==
    Ok([cls |-> "JSONNumberWidget", schema |-> schema_,
        primitive_widget |-> _set_limits(QDoubleSpinBox, schema_, NumberStep)])

JSONBooleanWidget(schema_, ctx) ==
    Ok([cls |-> "JSONBooleanWidget", schema |-> schema_,
        primitive_widget |-> QCheckBox])

JSONArrayWidget(schema_, ctx) ==
    IF "items" \notin DOMAIN schema_ THEN Raise("UnsupportedSchemaError")
    ELSE Ok([cls |-> "JSONArrayWidget", schema |-> schema_, ctx |-> ctx,
             items_schema |-> schema_.items,
             additional_item_schema |->
                 IF "additionalItems" \in DOMAIN schema_
                 THEN schema_.additionalItems ELSE None,
             items_list |-> <<>>, widget_stack |-> <<>>])

IsList(x) == "list" \in DOMAIN x

\* A schema that is a JSON boolean (additionalItems: false) is no dict.
IsDict(schema_) == "bool" \notin DOMAIN schema_

IsNone(x) == "none" \in DOMAIN x

\* An item schema selection that reads a list of schemas at its head only.
_get_item_schema_first(w, index) ==
    IF IsList(w.items_schema) THEN Ok(w.items_schema.list[1])
    ELSE IF ~IsDict(w.items_schema) THEN Raise("AssertionError")
    ELSE Ok(w.items_schema)

_get_item_schema(w, index) ==
    IF IsList(w.items_schema)
    THEN IF index < Len(w.items_schema.list)
         THEN Ok(w.items_schema.list[index + 1])
         ELSE IF IsNone(w.additional_item_schema) THEN Raise("AssertionError")
              ELSE Ok(w.additional_item_schema)
    ELSE IF ~IsDict(w.items_schema) THEN Raise("AssertionError")
    ELSE Ok(w.items_schema)

\* schema = ctx.dereference(schema['$ref']), and the loop's next turn.
FollowRef(schema_, ctx, seen, target) ==
    IF target.err # "none" THEN target
    ELSE FollowRefs(target.w, ctx, seen \cup {schema_})

\* while "$ref" in schema: ...  The loop has no other state than `schema`:
\* meeting a schema again, it never ends, which "diverges" stands for.
FollowRefs(schema_, ctx, seen) ==
    IF "$ref" \notin DOMAIN schema_ THEN Ok(schema_)
    ELSE IF schema_ \in seen THEN Raise("diverges")
    ELSE FollowRef(schema_, ctx, seen, dereference(ctx, schema_["$ref"]))

\* schema_type_to_widget_class.get(schema_type, UnsupportedSchemaWidget):
\* a list is no key of a dict (unhashable type).
GetWidgetClass(schema_type) ==
    IF schema_type \in TypeLists THEN Raise("TypeError")
    ELSE IF schema_type \in DOMAIN schema_type_to_widget_class
         THEN Ok(schema_type_to_widget_class[schema_type])
    ELSE Ok("UnsupportedSchemaWidget")

\* The class _create_widget selects.
widget_class(schema_) ==
    IF "enum" \in DOMAIN schema_ THEN Ok("JSONEnumWidget")
    ELSE IF "type" \in DOMAIN schema_ THEN GetWidgetClass(schema_.type)
    ELSE Ok("UnsupportedSchemaWidget")

Construct(class, schema_, ctx) ==
    CASE class = "JSONObjectWidget"  -> JSONObjectWidget(schema_, ctx)
      [] class = "JSONEnumWidget"    -> JSONEnumWidget(schema_, ctx)
      [] class = "JSONStringWidget"  -> JSONStringWidget(schema_, ctx)
      [] class = "JSONIntegerWidget" -> JSONIntegerWidget(schema_, ctx)
      [] class = "JSONNumberWidget"  -> JSONNumberWidget(schema_, ctx)
      [] class = "JSONBooleanWidget" -> JSONBooleanWidget(schema_, ctx)
      [] class = "JSONArrayWidget"   -> JSONArrayWidget(schema_, ctx)
      [] OTHER -> Ok(UnsupportedSchemaWidget(schema_, ctx))

\* An initialise that leaves the default alone.
initialiseSkipped(w) == Ok(w)

initialise(w) ==
    IF "default" \in DOMAIN w.schema
    THEN load_json_object(w, w.schema.default)
    ELSE Ok(w)

\* try: widget = widget_class(name, schema, ctx, parent)
\* except UnsupportedSchemaError: widget = UnsupportedSchemaWidget(...)
TryConstruct(schema_, ctx, made) ==
    IF made.err = "UnsupportedSchemaError"
    THEN Ok(UnsupportedSchemaWidget(schema_, ctx))
    ELSE made

\* return widget: a default whose load raises leaves no widget to the caller.
Initialised(loaded) ==
    IF loaded.err # "none" THEN Raise(loaded.err) ELSE loaded

\* widget.initialise(), reached when the construction raised nothing.
Initialise(widget) ==
    IF widget.err # "none" THEN widget ELSE Initialised(initialise(widget.w))

Selected(schema_, ctx, class) ==
    IF class.err # "none" THEN class
    ELSE Initialise(TryConstruct(schema_, ctx, Construct(class.w, schema_, ctx)))

\* _create_widget from the class selection on.
Instantiate(schema_, ctx) == Selected(schema_, ctx, widget_class(schema_))

\* if "id" in schema: ctx = ctx.follow_uri(schema['id'])
EnterContext(schema_, ctx) ==
    IF "id" \in DOMAIN schema_ THEN follow_uri(ctx, schema_.id) ELSE ctx

Dereferenced(ctx, target) ==
    IF target.err # "none" THEN target ELSE Instantiate(target.w, ctx)

FollowFrom(schema_, ctx) == Dereferenced(ctx, FollowRefs(schema_, ctx, {}))

_create_widget(schema_, ctx0) ==
    IF ~IsDict(schema_) THEN Raise("TypeError")
    ELSE FollowFrom(schema_, EnterContext(schema_, ctx0))

---------------------------------------------------------------------------
(* load_json_object, dump_json_object and the array operations.            *)

PropertyIndex(w, k) == CHOOSE j \in 1..Len(w.properties) : w.properties[j][1] = k

\* self.properties[k]: a key that is no declared property raises KeyError.
PropertyLookup(w, k) ==
    IF k \in Keys(w.properties) THEN Ok(PropertyIndex(w, k))
    ELSE Raise("KeyError")

WithProperty(w, j, child) == [w EXCEPT !.properties[j][2] = child]

LoadedProperty(w, pairs, i, j, child) ==
    IF child.err # "none" THEN Fail(WithProperty(w, j, child.w), child.err)
    ELSE LoadProperties(WithProperty(w, j, child.w), pairs, i + 1)

\* self.properties[k].load_json_object(v)
LoadProperty(w, pairs, i, found) ==
    IF found.err # "none" THEN Fail(w, found.err)
    ELSE LoadedProperty(w, pairs, i, found.w,
                        load_json_object(w.properties[found.w][2], pairs[i][2]))

\* for k, v in data.items(): ...
LoadProperties(w, pairs, i) ==
    IF i > Len(pairs) THEN Ok(w)
    ELSE LoadProperty(w, pairs, i, PropertyLookup(w, pairs[i][1]))

\* self.enum_values.index(obj): the first index whose entry equals obj.
EnumIndex(enum_values, obj) ==
    IF \E i \in 1..Len(enum_values) : JsonEq(enum_values[i], obj)
    THEN Ok((CHOOSE i \in 1..Len(enum_values) :
                /\ JsonEq(enum_values[i], obj)
                /\ \A j \in 1..(i - 1) : ~JsonEq(enum_values[j], obj)) - 1)
    ELSE Raise("ValueError")

\* A selection that swallows the failed lookup.
SelectionKept(w, index) ==
    IF index.err # "none" THEN Ok(w)
    ELSE Ok([w EXCEPT !.primitive_widget = setCurrentIndex(@, index.w)])

Selection(w, index) ==
    IF index.err # "none" THEN Fail(w, index.err)
    ELSE Ok([w EXCEPT !.primitive_widget = setCurrentIndex(@, index.w)])

WithItem(w, i, child) == [w EXCEPT !.widget_stack[i + 1] = child]

\* self.items_list.addItem(...); self.widget_stack.addWidget(obj)
Appended(w, index, obj) ==
    [w EXCEPT !.items_list = Append(@, index), !.widget_stack = Append(@, obj)]

\* obj.load_json_object(data), the new child being the last of the stack.
Preloaded(added, child) ==
    Fail(WithItem(added, Len(added.widget_stack) - 1, child.w), child.err)

AddCreated(w, data, index, obj) ==
    IF obj.err # "none" THEN Fail(w, obj.err)
    ELSE IF data.t # "null"
         THEN Preloaded(Appended(w, index, obj.w), load_json_object(obj.w, data))
    ELSE Ok(Appended(w, index, obj.w))

AddAt(w, data, index, schema_) ==
    IF schema_.err # "none" THEN Fail(w, schema_.err)
    ELSE AddCreated(w, data, index, _create_widget(schema_.w, w.ctx))

add_item(w, data) ==
    AddAt(w, data, Len(w.items_list), _get_item_schema(w, Len(w.items_list)))

\* QStackedWidget.widget(i) is None for an index it does not hold, and
\* removeWidget(None) removes nothing.
removeWidget(stack, i) ==
    IF i + 1 \in 1..Len(stack)
    THEN SubSeq(stack, 1, i) \o SubSeq(stack, i + 2, Len(stack))
    ELSE stack

\* A removal that takes the entry of the index list and leaves the stack.
TakeLastEntry(w, last_item_index) ==
    IF last_item_index < 0 THEN w
    ELSE [w EXCEPT !.items_list = SubSeq(@, 1, last_item_index)]

TakeLast(w, last_item_index) ==
    IF last_item_index < 0 THEN w
    ELSE [w EXCEPT !.items_list = SubSeq(@, 1, last_item_index),
                   !.widget_stack = removeWidget(@, last_item_index)]

remove_item(w) == TakeLast(w, Len(w.items_list) - 1)

\* self.widget_stack.widget(i).load_json_object(datum)
Reloaded(w, i, child) == Fail(WithItem(w, i, child.w), child.err)

\* A turn of the array's load that appends whatever the array holds.
LoadItemAppending(w, i, datum) == add_item(w, datum)

\* One turn of `for i, datum in enumerate(data)` in the array's load.
LoadItem(w, i, datum) ==
    IF i < Len(w.widget_stack)
    THEN Reloaded(w, i, load_json_object(w.widget_stack[i + 1], datum))
    ELSE add_item(w, datum)

NextItem(data, i, step) ==
    IF step.err # "none" THEN step ELSE LoadItems(step.w, data, i + 1)

LoadItems(w, data, i) ==
    IF i >= Len(data) THEN Ok(w)
    ELSE NextItem(data, i, LoadItem(w, i, data[i + 1]))

\* What `enumerate(data)` walks: a list's elements, a str's characters,
\* a dict's keys; anything else is not iterable.
Iterate(data) ==
    CASE data.t = "arr" -> Ok(data.v)
      [] data.t = "str" -> Ok([i \in 1..Len(data.v) |-> JStr(<<data.v[i]>>)])
      [] data.t = "obj" -> Ok([i \in 1..Len(data.v) |-> JStr(<<data.v[i][1]>>)])
      [] OTHER          -> Raise("TypeError")

Enumerated(w, items) ==
    IF items.err # "none" THEN Fail(w, items.err) ELSE LoadItems(w, items.w, 0)

load_json_object(w, data) ==
    CASE w.cls = "UnsupportedSchemaWidget" -> Ok(w)
      [] w.cls = "JSONObjectWidget" ->
            IF data.t # "obj" THEN Fail(w, "AttributeError")
            ELSE LoadProperties(w, data.v, 1)
      [] w.cls = "JSONEnumWidget" -> Selection(w, EnumIndex(w.enum_values, data))
      [] w.cls = "JSONStringWidget" ->
            IF data.t # "str" THEN Fail(w, "TypeError")
            ELSE Ok([w EXCEPT !.primitive_widget = setText(@, data.v)])
      [] w.cls = "JSONIntegerWidget" ->
            IF data.t # "int" THEN Fail(w, "TypeError")
            ELSE Ok([w EXCEPT !.primitive_widget = setValue(@, NumVal(data))])
      [] w.cls = "JSONNumberWidget" ->
            IF data.t \notin {"int", "num"} THEN Fail(w, "TypeError")
            ELSE Ok([w EXCEPT !.primitive_widget = setValue(@, NumVal(data))])
      [] w.cls = "JSONBooleanWidget" ->
            IF data.t # "bool" THEN Fail(w, "TypeError")
            ELSE Ok([w EXCEPT !.primitive_widget = setChecked(@, data.v)])
      [] w.cls = "JSONArrayWidget" -> Enumerated(w, Iterate(data))

Unsupported == JStr(<<"(unsupported)">>)

dump_json_object(w) ==
    CASE w.cls = "UnsupportedSchemaWidget" -> Unsupported
      [] w.cls = "JSONObjectWidget" ->
            JObj([j \in 1..Len(w.properties) |->
                    <<w.properties[j][1], dump_json_object(w.properties[j][2])>>])
      [] w.cls = "JSONEnumWidget" ->
            w.enum_values[w.primitive_widget.currentIndex + 1]
      [] w.cls = "JSONStringWidget"  -> JStr(w.primitive_widget.text)
      [] w.cls = "JSONIntegerWidget" -> JInt(w.primitive_widget.value \div Milli)
      [] w.cls = "JSONNumberWidget"  -> JNum(w.primitive_widget.value)
      [] w.cls = "JSONBooleanWidget" -> JBool(w.primitive_widget.checked)
      [] w.cls = "JSONArrayWidget" ->
            JArr([i \in 1..Len(w.widget_stack) |->
                    dump_json_object(w.widget_stack[i])])

---------------------------------------------------------------------------
(* MainWindow._do_validation: Draft4Validator(schema).iter_errors over the *)
(* dump of the tree.  An error is named by its path in the schema; the     *)
(* keywords are those of the schemas the form is validated against.        *)

IsType(instance, type) ==
    CASE type = "integer" -> instance.t = "int"
      [] type = "number"  -> instance.t \in {"int", "num"}
      [] type = "string"  -> instance.t = "str"
      [] type = "boolean" -> instance.t = "bool"
      [] type = "array"   -> instance.t = "arr"
      [] type = "object"  -> instance.t = "obj"
      [] type = "null"    -> instance.t = "null"
      [] OTHER            -> FALSE

Under(prefix, paths) == {prefix \o q : q \in paths}

RECURSIVE iter_errors(_, _)

PropertyErrors(instance, props) ==
    UNION {Under(<<"properties", props[j][1]>>,
                 iter_errors(Lookup(instance.v, props[j][1]), props[j][2]))
           : j \in {j \in 1..Len(props) : props[j][1] \in Keys(instance.v)}}

iter_errors(instance, schema_) ==
    (IF "type" \in DOMAIN schema_ /\ ~IsType(instance, schema_.type)
     THEN {<<"type">>} ELSE {})
    \cup
    (IF /\ "minimum" \in DOMAIN schema_
        /\ IsType(instance, "number")
        /\ \/ NumVal(instance) < NumVal(schema_.minimum)
           \/ /\ Exclusive(schema_, "exclusiveMinimum")
              /\ NumVal(instance) = NumVal(schema_.minimum)
     THEN {<<"minimum">>} ELSE {})
    \cup
    (IF /\ "maximum" \in DOMAIN schema_
        /\ IsType(instance, "number")
        /\ \/ NumVal(instance) > NumVal(schema_.maximum)
           \/ /\ Exclusive(schema_, "exclusiveMaximum")
              /\ NumVal(instance) = NumVal(schema_.maximum)
     THEN {<<"maximum">>} ELSE {})
    \cup
    (IF "properties" \in DOMAIN schema_ /\ instance.t = "obj"
     THEN PropertyErrors(instance, schema_.properties) ELSE {})

_do_validation(widget, schema_) == iter_errors(dump_json_object(widget), schema_)

---------------------------------------------------------------------------
(* Addressing a node of the tree: a path is a sequence of steps, [p |-> k] *)
(* into property k of an object, [i |-> n] into child n of an array.       *)

RECURSIVE ArrayPaths(_)
\* The paths of the array widgets of the tree (each has its own buttons).
ArrayPaths(w) ==
    CASE w.cls = "JSONArrayWidget" ->
            {<<>>} \cup UNION {{<<[i |-> n - 1]>> \o q : q \in ArrayPaths(w.widget_stack[n])}
                               : n \in 1..Len(w.widget_stack)}
      [] w.cls = "JSONObjectWidget" ->
            UNION {{<<[p |-> w.properties[j][1]]>> \o q : q \in ArrayPaths(w.properties[j][2])}
                   : j \in 1..Len(w.properties)}
      [] OTHER -> {}

Child(w, step) ==
    IF "p" \in DOMAIN step THEN w.properties[PropertyIndex(w, step.p)][2]
    ELSE w.widget_stack[step.i + 1]

RECURSIVE WidgetAt(_, _)
WidgetAt(w, path) ==
    IF path = <<>> THEN w ELSE WidgetAt(Child(w, Head(path)), Tail(path))

RECURSIVE ReplaceAt(_, _, _)
ReplaceAt(w, path, new) ==
    IF path = <<>> THEN new
    ELSE LET step == Head(path)
             sub  == ReplaceAt(Child(w, step), Tail(path), new)
         IN  IF "p" \in DOMAIN step
             THEN [w EXCEPT !.properties[PropertyIndex(w, step.p)][2] = sub]
             ELSE [w EXCEPT !.widget_stack[step.i + 1] = sub]

---------------------------------------------------------------------------
(* The data handed to load_json_object: for each widget a few values of    *)
(* its own type inside and outside what it can hold, and one of another    *)
(* type.                                                                   *)

RECURSIVE Prod(_)
\* The sequences whose i-th element is drawn from the i-th set.
Prod(sets) ==
    IF sets = <<>> THEN {<<>>}
    ELSE {<<h>> \o t : h \in Head(sets), t \in Prod(Tail(sets))}

RECURSIVE Sorted(_)
Sorted(S) ==
    IF S = {} THEN <<>>
    ELSE LET m == CHOOSE x \in S : \A y \in S : x <= y
         IN  <<m>> \o Sorted(S \ {m})

NewItem(w, schema_) ==
    IF schema_.err # "none" THEN schema_ ELSE _create_widget(schema_.w, w.ctx)

\* The child an array holds, or would create, at index i.
ItemWidget(w, i) ==
    IF i < Len(w.widget_stack) THEN Ok(w.widget_stack[i + 1])
    ELSE NewItem(w, _get_item_schema(w, i))

RECURSIVE Primary(_)

PrimaryItems(item) ==
    IF item.err # "none" THEN JArr(<<>>) ELSE JArr(<<Primary(item.w)>>)

\* A value the widget can hold.
Primary(w) ==
    CASE w.cls = "JSONIntegerWidget" -> JInt(5)
      [] w.cls = "JSONNumberWidget"  -> JNum(2500)
      [] w.cls = "JSONStringWidget"  -> JStr(<<"a">>)
      [] w.cls = "JSONBooleanWidget" -> JBool(TRUE)
      [] w.cls = "JSONEnumWidget"    -> w.enum_values[Len(w.enum_values)]
      [] w.cls = "JSONArrayWidget"   -> PrimaryItems(ItemWidget(w, 0))
      [] w.cls = "JSONObjectWidget"  ->
            JObj([j \in 1..Len(w.properties) |->
                    <<w.properties[j][1], Primary(w.properties[j][2])>>])
      [] OTHER -> JInt(5)

\* A value at the edge of what the widget can hold, or outside it.
Secondary(w) ==
    CASE w.cls = "JSONIntegerWidget" -> JInt(50)
      [] w.cls = "JSONNumberWidget"  -> JNum(1234)
      [] w.cls = "JSONStringWidget"  -> JStr(<<"a", "b">>)
      [] w.cls = "JSONBooleanWidget" -> JBool(FALSE)
      [] w.cls = "JSONEnumWidget"    -> JStr(<<"z">>)
      [] w.cls = "JSONArrayWidget"   -> JArr(<<>>)
      [] w.cls = "JSONObjectWidget"  ->
            IF Len(w.properties) = 0 THEN JObj(<<>>)
            ELSE JObj(<< <<w.properties[1][1], Primary(w.properties[1][2])>> >>)
      [] OTHER -> JStr(<<"a">>)

ElementValues(w) == {Primary(w), Secondary(w)}

ValuesOfItem(item) ==
    IF item.err # "none" THEN {JInt(5)} ELSE ElementValues(item.w)

ItemValues(w, i) == ValuesOfItem(ItemWidget(w, i))

ArrayValues(w) ==
    {JArr(s) : s \in UNION {Prod([i \in 1..n |-> ItemValues(w, i - 1)])
                            : n \in 0..MaxLen}}

\* Dicts naming any part of the declared properties, and dicts that also
\* name a key "zz" that is no property, first or last.
PropertyValues(w, j) ==
    {<<w.properties[j][1], x>> : x \in ElementValues(w.properties[j][2])}

Unknown == <<"zz", JInt(5)>>

WithUnknown(whole) == {JObj(<<Unknown>> \o whole), JObj(whole \o <<Unknown>>)}

ObjectValues(w) ==
    {JObj(s) : s \in UNION {Prod([k \in 1..Cardinality(S) |->
                                     PropertyValues(w, Sorted(S)[k])])
                            : S \in SUBSET (1..Len(w.properties))}}
    \cup WithUnknown(Primary(w).v)

Values(w) ==
    CASE w.cls = "JSONIntegerWidget" ->
            {JInt(-1), JInt(5), JInt(50), JStr(<<"a">>)}
      [] w.cls = "JSONNumberWidget"  ->
            {JNum(1000), JNum(1234), JNum(2500), JInt(3), JStr(<<"a">>)}
      [] w.cls = "JSONStringWidget"  ->
            {JStr(<<>>), JStr(<<"a">>), JStr(<<"a", "b">>), JInt(5)}
      [] w.cls = "JSONBooleanWidget" -> {JBool(TRUE), JBool(FALSE), JStr(<<"a">>)}
      [] w.cls = "JSONEnumWidget"    ->
            {w.enum_values[i] : i \in 1..Len(w.enum_values)} \cup {JStr(<<"z">>)}
      [] w.cls = "JSONArrayWidget"   -> ArrayValues(w) \cup {JInt(5)}
      [] w.cls = "JSONObjectWidget"  -> ObjectValues(w) \cup {JArr(<<>>)}
      [] OTHER -> {JInt(5), JStr(<<"a">>)}

---------------------------------------------------------------------------
(* The schemas create_widget is called with.                               *)

Ref(uri) == "$ref" :> uri

Integer == [type |-> "integer"]

Bounded == [type |-> "integer", minimum |-> JInt(0), maximum |-> JInt(10)]

Letters == [enum |-> <<JStr(<<"a">>), JStr(<<"b">>), JStr(<<"c">>)>>]

Null == [type |-> "null"]

NoItems == [type |-> "array"]

Union == [type |-> "['string', 'null']"]

\* The schema of the end-to-end example.
EndToEnd == [type |-> "object", properties |-> << <<"n", Bounded>> >>]

Definitions ==
    [A       |-> Ref(Local("B")),
     B       |-> Bounded,
     Loop    |-> Ref(Local("Pool")),
     Pool    |-> Ref(Local("Loop")),
     Self    |-> Ref(Local("Self"))]

Referring(name) == [definitions |-> Definitions] @@ Ref(Local(name))

Schemas ==
    << EndToEnd,
       Integer,
       Bounded,
       [type |-> "integer", minimum |-> JInt(0), exclusiveMinimum |-> TRUE,
        maximum |-> JInt(10), exclusiveMaximum |-> TRUE, default |-> JInt(50)],
       [type |-> "integer", minimum |-> JInt(200)],
       [type |-> "number", minimum |-> JInt(1), exclusiveMinimum |-> TRUE],
       [type |-> "number", default |-> JNum(1234)],
       [type |-> "string"],
       [type |-> "string", maxLength |-> 1, default |-> JStr(<<"a">>)],
       [type |-> "boolean", default |-> JBool(TRUE)],
       Letters,
       Letters @@ [default |-> JStr(<<"b">>)],
       Letters @@ [default |-> JStr(<<"z">>)],
       Letters @@ [type |-> "string"],
       Null,
       Null @@ [default |-> JInt(5)],
       [description |-> "no type"],
       Union,
       NoItems,
       NoItems @@ [default |-> JArr(<<JInt(1)>>)],
       [type |-> "array", items |-> Integer],
       [type |-> "array", items |-> Bounded,
        default |-> JArr(<<JInt(1), JInt(2)>>)],
       [type |-> "array", items |-> [list |-> <<Bounded>>],
        additionalItems |-> [type |-> "string", maxLength |-> 1]],
       [type |-> "array", items |-> [list |-> <<[type |-> "string"], Bounded>>],
        additionalItems |-> [type |-> "boolean"]],
       [type |-> "array", items |-> [list |-> <<[type |-> "boolean"]>>]],
       [type |-> "array", items |-> [list |-> <<Integer>>],
        additionalItems |-> [bool |-> FALSE]],
       [type |-> "array", items |-> Letters],
       [type |-> "array", items |-> [type |-> "array", items |-> [type |-> "boolean"]]],
       [type |-> "array", items |-> Ref(Local("Self")), definitions |-> Definitions],
       [type |-> "object"],
       [type |-> "object", properties |-> << <<"e", Letters>>, <<"n", Integer>> >>],
       [type |-> "object",
        properties |-> << <<"n", Bounded @@ [default |-> JInt(5)]>>,
                          <<"s", [type |-> "string"]>> >>,
        default |-> JObj(<< <<"n", JInt(7)>> >>)],
       [type |-> "object",
        properties |-> << <<"u", Null>>, <<"a", NoItems>>, <<"n", Integer>> >>],
       [type |-> "object",
        properties |-> << <<"t", Union>>, <<"n", Integer>> >>],
       [type |-> "object",
        properties |-> << <<"r", Ref(Local("Missing"))>>, <<"n", Integer>> >>],
       [type |-> "object",
        properties |-> << <<"n", Integer>>, <<"r", Ref(Uri("ftp", "defs", <<>>))>> >>],
       [type |-> "object", definitions |-> Definitions,
        properties |-> << <<"a", [type |-> "array", items |-> Ref(Local("A"))]>>,
                          <<"b", [type |-> "boolean"]>> >>],
       [type |-> "object", definitions |-> Definitions,
        properties |-> << <<"c", Ref(Local("Loop"))>> >>],
       Referring("A"),
       Referring("B"),
       Referring("Loop"),
       Referring("Self"),
       Referring("Missing"),
       Ref(Uri(NoScheme, "", <<>>)),
       Ref(Uri("ftp", "defs", <<"definitions", "Small">>)),
       Ref(Uri("file", "nope", <<"definitions", "Small">>)),
       Ref(Uri("http", "defs", <<"definitions", "Small">>)),
       Ref(Uri("file", "defs", <<"definitions", "Small">>)),
       Ref(Uri("file", "defs", <<"definitions", "Gone">>)),
       [id |-> Uri("file", "defs", <<>>)] @@ Ref(Local("Small")),
       [id |-> Uri("file", "defs", <<>>)] @@ Ref(Local("Gone")) >>

---------------------------------------------------------------------------
(* The state machine: create_widget(schema), then any sequence of          *)
(* load_json_object on the root and of clicks on the arrays' buttons.      *)
(* pc is "deref" while _create_widget follows the root schema's $ref       *)
(* chain (one turn of its while loop per step), then "built", "raised"     *)
(* (create_widget raised err) or "hung" (a call that never returns).       *)

Start == [kind |-> "create_widget", path |-> <<>>, data |-> JNull]

Init ==
    /\ \E n \in 1..Len(Schemas) : schema = Schemas[n]
    /\ pc = "deref"
    /\ cur = schema
    /\ curctx = EnterContext(schema, Context(schema))
    /\ root = None
    /\ op = Start
    /\ prev = None
    /\ err = "none"

\* One turn of `while "$ref" in schema` for the root.
Assign(target) ==
    /\ cur' = IF target.err = "none" THEN target.w ELSE cur
    /\ pc'  = IF target.err = "none" THEN "deref" ELSE "raised"
    /\ err' = target.err

DerefStep ==
    /\ pc = "deref"
    /\ "$ref" \in DOMAIN cur
    /\ Assign(dereference(curctx, cur["$ref"]))
    /\ UNCHANGED <<schema, curctx, root, op, prev>>

Outcome(e) == IF e = "diverges" THEN "hung" ELSE IF e = "none" THEN "built" ELSE "raised"

\* The rest of _create_widget for the root, its subtree included.
Return(made) ==
    /\ root' = made.w
    /\ pc'   = Outcome(made.err)
    /\ err'  = made.err

Build ==
    /\ pc = "deref"
    /\ "$ref" \notin DOMAIN cur
    /\ Return(Instantiate(cur, curctx))
    /\ UNCHANGED <<schema, cur, curctx, op, prev>>

Finish(kind, path, data, result) ==
    /\ root' = result.w
    /\ err'  = result.err
    /\ pc'   = IF result.err = "diverges" THEN "hung" ELSE "built"
    /\ prev' = root
    /\ op'   = [kind |-> kind, path |-> path, data |-> data]
    /\ UNCHANGED <<schema, cur, curctx>>

\* The caller loads `data` into the tree (MainWindow.load_json).
LoadJsonObject(data) ==
    /\ pc = "built"
    /\ Finish("load_json_object", <<>>, data, load_json_object(root, data))

\* The tree after a call on the array at `path`.
Within(path, result) == Fail(ReplaceAt(root, path, result.w), result.err)

\* The append button of the array at `path`.
ClickAdd(path) ==
    /\ pc = "built"
    /\ Len(WidgetAt(root, path).widget_stack) < MaxItems
    /\ Finish("add_item", path, JNull,
              Within(path, add_item(WidgetAt(root, path), JNull)))

\* The remove button of the array at `path`.
ClickRemove(path) ==
    /\ pc = "built"
    /\ Finish("remove_item", path, JNull,
              Within(path, Ok(remove_item(WidgetAt(root, path)))))

\* What the caller may load, and the arrays whose buttons it may click,
\* once create_widget has returned the tree.
Inputs == IF pc = "built" THEN Values(root) ELSE {}

Arrays == IF pc = "built" THEN ArrayPaths(root) ELSE {}

Next ==
    \/ DerefStep
    \/ Build
    \/ \E data \in Inputs : LoadJsonObject(data)
    \/ \E path \in Arrays : ClickAdd(path)
    \/ \E path \in Arrays : ClickRemove(path)

Spec == Init /\ [][Next]_vars

\* A call in progress keeps running: the interpreter takes the next turn
\* of the while loop that follows "$ref".
FairSpec == Spec /\ WF_vars(DerefStep)

---------------------------------------------------------------------------
(* What a load is expected to leave, stated from the widgets' settings     *)
(* alone: the operators below take no step of load_json_object.            *)

Max(a, b) == IF a > b THEN a ELSE b

Clamp(lo, x, hi) == IF x < lo THEN lo ELSE IF x > hi THEN hi ELSE x

\* The hundredth nearest to x (halves away from zero).
Nearest(x) ==
    IF x >= 0 THEN ((x + 5) \div 10) * 10 ELSE -(((5 - x) \div 10) * 10)

IsLoad == op.kind = "load_json_object"

RECURSIVE Composed(_)
\* The tree holds String, Integer, Number, Boolean, Enum, Array and Object
\* nodes only.
Composed(w) ==
    CASE w.cls = "UnsupportedSchemaWidget" -> FALSE
      [] w.cls = "JSONArrayWidget" ->
            \A i \in 1..Len(w.widget_stack) : Composed(w.widget_stack[i])
      [] w.cls = "JSONObjectWidget" ->
            \A j \in 1..Len(w.properties) : Composed(w.properties[j][2])
      [] OTHER -> TRUE

RECURSIVE Covers(_, _)
\* v has an element for every child of every array of w, and names every
\* property of every object of w.
Covers(w, v) ==
    CASE w.cls = "JSONArrayWidget" ->
            /\ v.t = "arr"
            /\ Len(w.widget_stack) <= Len(v.v)
            /\ \A i \in 1..Len(v.v) : Covers(ItemWidget(w, i - 1).w, v.v[i])
      [] w.cls = "JSONObjectWidget" ->
            /\ v.t = "obj"
            /\ Keys(v.v) = Keys(w.properties)
            /\ \A j \in 1..Len(w.properties) :
                  Covers(w.properties[j][2], Lookup(v.v, w.properties[j][1]))
      [] OTHER -> TRUE

RECURSIVE Expected(_, _)
\* The dump expected of w once v is loaded into it: a string cut to
\* maxLength, a number brought into the spin box's range (a float to the
\* nearest hundredth first), a child per element and per property, and what
\* v does not reach as it was.
Expected(w, v) ==
    CASE w.cls = "UnsupportedSchemaWidget" -> Unsupported
      [] w.cls = "JSONStringWidget" ->
            JStr(Left(v.v, w.primitive_widget.maxLength))
      [] w.cls = "JSONIntegerWidget" ->
            JInt(Clamp(w.primitive_widget.minimum, NumVal(v),
                       w.primitive_widget.maximum) \div Milli)
      [] w.cls = "JSONNumberWidget" ->
            JNum(Clamp(w.primitive_widget.minimum, Nearest(NumVal(v)),
                       w.primitive_widget.maximum))
      [] w.cls = "JSONArrayWidget" ->
            JArr([i \in 1..Max(Len(v.v), Len(w.widget_stack)) |->
                    IF i <= Len(v.v)
                    THEN Expected(ItemWidget(w, i - 1).w, v.v[i])
                    ELSE dump_json_object(w.widget_stack[i])])
      [] w.cls = "JSONObjectWidget" ->
            JObj([j \in 1..Len(w.properties) |->
                    <<w.properties[j][1],
                      IF w.properties[j][1] \in Keys(v.v)
                      THEN Expected(w.properties[j][2],
                                    Lookup(v.v, w.properties[j][1]))
                      ELSE dump_json_object(w.properties[j][2])>>])
      [] OTHER -> v

---------------------------------------------------------------------------
(* C1: round trip.                                                         *)

\* C1 as stated: for every tree composed of String, Integer, Number,
\* Boolean, Enum, Array and Object nodes, a load of v that returns is
\* followed by a dump equal to v, whatever the tree held before.
RoundTrip ==
    (IsLoad /\ err = "none" /\ Composed(root))
        => JsonEq(dump_json_object(root), op.data)

\* C1: when the loaded value v has an element for every child the tree's
\* arrays already held and names every property of its objects, the dump
\* after a load of v that returns is v with each String cut to maxLength
\* and each Integer and Number brought into its spin box's range (a Number
\* to the nearest hundredth); Boolean and Enum values come back as loaded.
RoundTripWithinWidgets ==
    (IsLoad /\ err = "none" /\ Composed(root) /\ Covers(prev, op.data))
        => JsonEq(dump_json_object(root), Expected(prev, op.data))

\* A covering load into an object whose dump differs from what was loaded.
RoundTripClamped ==
    /\ IsLoad /\ err = "none" /\ Composed(root) /\ Covers(prev, op.data)
    /\ root.cls = "JSONObjectWidget"
    /\ ~JsonEq(dump_json_object(root), op.data)

---------------------------------------------------------------------------
(* C2: object load and unknown keys.                                       *)

Declared(w, pairs) == SelectSeq(pairs, LAMBDA kv : kv[1] \in Keys(w.properties))

NamesUnknownKey ==
    /\ IsLoad
    /\ prev.cls = "JSONObjectWidget"
    /\ op.data.t = "obj"
    /\ ~(Keys(op.data.v) \subseteq Keys(prev.properties))

\* C2 as stated: an object load whose data names a key that is no declared
\* property does not fail, and leaves the tree as the load of the declared
\* keys alone leaves it.
UnknownKeysIgnored ==
    NamesUnknownKey
        => /\ err = "none"
           /\ root = load_json_object(prev, JObj(Declared(prev, op.data.v))).w

---------------------------------------------------------------------------
(* C3: array load only grows.                                              *)

RECURSIVE Kept(_, _)
\* Every array of the tree `before` has at least as many children `after`.
Kept(before, after) ==
    CASE before.cls = "JSONArrayWidget" ->
            /\ Len(after.widget_stack) >= Len(before.widget_stack)
            /\ \A i \in 1..Len(before.widget_stack) :
                  Kept(before.widget_stack[i], after.widget_stack[i])
      [] before.cls = "JSONObjectWidget" ->
            \A j \in 1..Len(before.properties) :
                Kept(before.properties[j][2], after.properties[j][2])
      [] OTHER -> TRUE

Grown(before, after, seq) ==
    /\ Len(after.widget_stack) = Max(Len(before.widget_stack), Len(seq))
    /\ Len(after.items_list) = Len(after.widget_stack)
    /\ \A i \in 1..Len(after.widget_stack) :
          IF i > Len(seq)
          THEN after.widget_stack[i] = before.widget_stack[i]
          ELSE after.widget_stack[i]
                  = load_json_object(ItemWidget(before, i - 1).w, seq[i]).w

IsArrayLoad == IsLoad /\ prev.cls = "JSONArrayWidget" /\ op.data.t = "arr"

\* C3: a load of seq into an array of n children that returns leaves
\* max(n, len(seq)) children: child i < len(seq) is the child the array
\* held at i, or a newly created one, with seq[i] loaded into it, and the
\* children from len(seq) on are as they were; and no load, returning or
\* raising, leaves any array of the tree with fewer children.
ArrayLoadOnlyGrows ==
    /\ (IsArrayLoad /\ err = "none") => Grown(prev, root, op.data.v)
    /\ IsLoad => Kept(prev, root)

\* A load of fewer elements than the array holds children.
ArrayLoadedShorter ==
    /\ IsArrayLoad /\ err = "none"
    /\ Len(op.data.v) >= 1
    /\ Len(prev.widget_stack) > Len(op.data.v)

---------------------------------------------------------------------------
(* C4: a $ref that cannot be resolved.                                     *)

ResolutionErrors == {"UnknownSchemeError", "ReferenceResolutionError"}

\* C4 as stated: a $ref that cannot be resolved is caught inside
\* _create_widget, so create_widget raises no resolution error and returns
\* the tree.
UnresolvableRefIsCaught ==
    (pc # "deref" /\ op = Start) => (err \notin ResolutionErrors /\ pc = "built")

---------------------------------------------------------------------------
(* C5: unsupported and malformed fragments.                                *)

\* A fragment without enum whose type is none of the six, or is missing,
\* or is "array" without items.
Malformed(s) ==
    /\ "enum" \notin DOMAIN s
    /\ "$ref" \notin DOMAIN s
    /\ \/ "type" \notin DOMAIN s
       \/ s.type \notin DOMAIN schema_type_to_widget_class
       \/ s.type = "array" /\ "items" \notin DOMAIN s

HasMalformedProperty(s) ==
    /\ "type" \in DOMAIN s
    /\ s.type = "object"
    /\ "properties" \in DOMAIN s
    /\ \E j \in 1..Len(s.properties) : Malformed(s.properties[j][2])

PropertyBuilt(s, child) ==
    Malformed(s) <=> child.cls = "UnsupportedSchemaWidget"

\* C5 as stated: create_widget returns for a malformed fragment an
\* Unsupported node, whose dump is "(unsupported)", and for an object with
\* a malformed property the object with that child Unsupported and the
\* other children built.
MalformedFragmentBuilds ==
    /\ (pc # "deref" /\ op = Start /\ Malformed(cur))
          => /\ pc = "built"
             /\ root.cls = "UnsupportedSchemaWidget"
             /\ dump_json_object(root) = Unsupported
    /\ (pc # "deref" /\ op = Start /\ HasMalformedProperty(cur))
          => /\ pc = "built"
             /\ root.cls = "JSONObjectWidget"
             /\ \A j \in 1..Len(cur.properties) :
                   PropertyBuilt(cur.properties[j][2], root.properties[j][2])

---------------------------------------------------------------------------
(* C6: structural load and numeric bounds.                                 *)

Fifty == JObj(<< <<"n", JInt(50)>> >>)

\* C6 as stated: with the schema of the end-to-end example, after the load
\* of {"n": 50} the dump is {"n": 50} and the validation reports one error,
\* at properties/n/maximum.
LoadKeepsOutOfBounds ==
    (schema = EndToEnd /\ IsLoad /\ op.data = Fifty /\ err = "none")
        => /\ JsonEq(dump_json_object(root), Fifty)
           /\ _do_validation(root, schema) = {<<"properties", "n", "maximum">>}

---------------------------------------------------------------------------
(* C7: default initialisation.                                             *)

\* The node as its constructor leaves it, before initialise().
Constructed ==
    TryConstruct(cur, curctx, Construct(widget_class(cur).w, cur, curctx)).w

IsFresh == pc = "built" /\ op = Start /\ "default" \in DOMAIN cur

\* C7 as stated: the dump of a node whose schema carries a default equals
\* that default before any load by the caller.
DefaultIsDumped == IsFresh => JsonEq(dump_json_object(root), cur.default)

\* C7: the dump of a node whose schema carries a default is, before any
\* load by the caller, what one load of the default into the constructed
\* node leaves: the default for String (up to maxLength), Boolean and Enum,
\* the default brought into the spin box's range for Integer and Number,
\* one child per element for Array, for Object every declared property
\* (those the default does not name as they were built), and
\* "(unsupported)" for an Unsupported node.
DefaultIsLoaded ==
    IsFresh => JsonEq(dump_json_object(root), Expected(Constructed, cur.default))

\* A built node whose dump is not its schema's default.
DefaultNotDumped ==
    /\ IsFresh
    /\ root.cls \in {"JSONIntegerWidget", "UnsupportedSchemaWidget"}
    /\ ~JsonEq(dump_json_object(root), cur.default)

---------------------------------------------------------------------------
(* C8: enum mismatch.                                                      *)

InEnum(w, v) == \E i \in 1..Len(w.enum_values) : JsonEq(w.enum_values[i], v)

RECURSIVE Mismatch(_, _)

MismatchIn(item, v) == item.err = "none" /\ Mismatch(item.w, v)

\* v carries, at an Enum node of w or of a child an array creates for it,
\* a value the enum does not list.
Mismatch(w, v) ==
    CASE w.cls = "JSONEnumWidget" -> ~InEnum(w, v)
      [] w.cls = "JSONArrayWidget" /\ v.t = "arr" ->
            \E i \in 1..Len(v.v) : MismatchIn(ItemWidget(w, i - 1), v.v[i])
      [] w.cls = "JSONObjectWidget" /\ v.t = "obj" ->
            /\ Keys(v.v) \subseteq Keys(w.properties)
            /\ \E i \in 1..Len(v.v) :
                  Mismatch(w.properties[PropertyIndex(w, v.v[i][1])][2], v.v[i][2])
      [] OTHER -> FALSE

\* C8: a load whose data carries, at an Enum node, a value absent from the
\* enum list raises the lookup's error, through the Object and Array loads
\* above that node; a load of a listed value into an Enum node returns and
\* the dump is that value.
EnumMismatchPropagates ==
    /\ (IsLoad /\ Mismatch(prev, op.data)) => err = "ValueError"
    /\ (IsLoad /\ prev.cls = "JSONEnumWidget" /\ InEnum(prev, op.data))
          => (err = "none" /\ JsonEq(dump_json_object(root), op.data))

\* A mismatch below an array or an object that reached the caller.
EnumMismatchRaised ==
    /\ IsLoad
    /\ prev.cls \in {"JSONArrayWidget", "JSONObjectWidget"}
    /\ Mismatch(prev, op.data)
    /\ err = "ValueError"

---------------------------------------------------------------------------
(* C10: the schema of an array's child.                                    *)

\* items[i] inside a list of schemas, additionalItems beyond it, and the
\* single schema otherwise.
ItemSchemaAt(s, i) ==
    IF IsList(s.items)
    THEN IF i < Len(s.items.list) THEN s.items.list[i + 1] ELSE s.additionalItems
    ELSE s.items

BeyondItems(w, i) ==
    /\ IsList(w.schema.items)
    /\ i >= Len(w.schema.items.list)
    /\ "additionalItems" \notin DOMAIN w.schema

BuiltFrom(w, s, child) ==
    child.schema = FollowRefs(s, EnterContext(s, w.ctx), {}).w

RECURSIVE ByIndex(_)
ByIndex(w) ==
    CASE w.cls = "JSONArrayWidget" ->
            \A i \in 1..Len(w.widget_stack) :
                /\ ~BeyondItems(w, i - 1)
                /\ BuiltFrom(w, ItemSchemaAt(w.schema, i - 1), w.widget_stack[i])
                /\ ByIndex(w.widget_stack[i])
      [] w.cls = "JSONObjectWidget" ->
            \A j \in 1..Len(w.properties) : ByIndex(w.properties[j][2])
      [] OTHER -> TRUE

AddedBeyondItems ==
    /\ op.kind = "add_item"
    /\ BeyondItems(WidgetAt(prev, op.path), Len(WidgetAt(prev, op.path).widget_stack))

\* C10: every child of every array is built from items[i] when items is a
\* list and i is inside it, from additionalItems when i is beyond the list,
\* and from items when items is one schema; creating a child beyond the
\* list without additionalItems fails and leaves the tree as it was.
ItemSchemaByIndex ==
    /\ pc = "built" => ByIndex(root)
    /\ AddedBeyondItems => (err = "AssertionError" /\ root = prev)

\* An array whose items is a list holds a child beyond the list.
ChildBeyondItems ==
    /\ pc = "built"
    /\ root.cls = "JSONArrayWidget"
    /\ IsList(root.schema.items)
    /\ Len(root.widget_stack) > Len(root.schema.items.list)


---------------------------------------------------------------------------
(* C9: following $ref ends.                                                *)

\* C9 as stated: the loop of _create_widget that follows "$ref" is left,
\* with the schema it reached or with an error, whatever chain of $ref the
\* schema holds.
RefFollowingEnds == <>~(pc = "deref" /\ "$ref" \in DOMAIN cur)

---------------------------------------------------------------------------
(* C11: the array's index list and child stack.                            *)

RECURSIVE Booked(_)
\* In every array of the tree the index list, the child stack and the dump
\* have one length.
Booked(w) ==
    CASE w.cls = "JSONArrayWidget" ->
            /\ Len(w.items_list) = Len(w.widget_stack)
            /\ Len(dump_json_object(w).v) = Len(w.widget_stack)
            /\ \A i \in 1..Len(w.widget_stack) : Booked(w.widget_stack[i])
      [] w.cls = "JSONObjectWidget" ->
            \A j \in 1..Len(w.properties) : Booked(w.properties[j][2])
      [] OTHER -> TRUE

\* The array the buttons of the last call belong to, before and after it.
LastRemoved(before, after) ==
    IF Len(before.widget_stack) = 0 THEN after = before
    ELSE /\ after.widget_stack
               = SubSeq(before.widget_stack, 1, Len(before.widget_stack) - 1)
         /\ after.items_list
               = SubSeq(before.items_list, 1, Len(before.items_list) - 1)

\* C11: after any sequence of add_item, remove_item and load_json_object,
\* raising calls included, every array's index list, child stack and dump
\* have the same length; remove_item leaves an empty array as it was and
\* otherwise takes exactly the last child; an add_item that raises before
\* the child exists leaves the tree as it was.
ArrayBookkeeping ==
    /\ pc = "built" => Booked(root)
    /\ op.kind = "remove_item"
          => /\ err = "none"
             /\ LastRemoved(WidgetAt(prev, op.path), WidgetAt(root, op.path))
             /\ root = ReplaceAt(prev, op.path, WidgetAt(root, op.path))
    /\ (op.kind = "add_item" /\ err # "none") => root = prev

\* A load that raised after it had appended a child to the array.
RaisedAfterAppend ==
    /\ IsLoad
    /\ err # "none"
    /\ prev.cls = "JSONArrayWidget"
    /\ Len(root.widget_stack) > Len(prev.widget_stack)

=============================================================================
